---- MODULE Spec2Model ----
(***************************************************************************)
(* Fuel-stop planner of src/app.js: calculateFuelStops and the helpers it  *)
(* calls (findStateBorderCrossings, findBestStationInRange,              *)
(* findAnyReachableStation, createStopFromStation), over the ordered,      *)
(* annotated station list that findStationsAlongRoute returns.             *)
(*                                                                         *)
(* Units.  Gallons, miles and miles-per-gallon are integers (the form      *)
(* parses gallons and tank size with parseInt).  A fuel level that is not  *)
(* a whole number of gallons (fuel on arrival at a station) is carried as  *)
(* "range miles" = gallons * mpg, which is an integer; the factors 0.75,   *)
(* 0.85, 0.90 and 0.95 are carried as percentages and every comparison is  *)
(* multiplied through by 100 * mpg, so all arithmetic is exact.  Prices    *)
(* are cents, distanceFromRoute is tenths of a mile.  IEEE rounding of the *)
(* doubles is not modelled.                                                *)
(***************************************************************************)
EXTENDS Integers, Sequences, FiniteSets, TLC

\* ---------------------------------------------------------------- bounds
MaxStations == 3

\* ------------------------------------------------------- CONFIG (app.js)
avgNationalPrice == 375
excellent == 295
good == 330
fair == 360
fullTankStates == {"CA", "WA"}
destinationFuelTarget == 75
minArrivalGallons == 30
routeBuffer == 30

\* ------------------------------------------------- enumerated input sets
StationMiles == {0, 2, 90, 100, 180}
RouteOffsets == {5}
\* a station's state with its price in cents: the regional price, or a
\* discounted price set for a station outside the high-price states
StationKinds == {[state |-> "NV", price |-> 300],
                 [state |-> "NV", price |-> 370],
                 [state |-> "CA", price |-> 370]}
TankSizes == {60, 150}
Gallons == {15, 30, 50, 60, 150}
MpgValues == {7}
RouteDistances == {0, 200, 300, 600}


\* ---------------------------------------------------------- arithmetic
Max(a, b) == IF a >= b THEN a ELSE b
Min(a, b) == IF a <= b THEN a ELSE b
Abs(a) == IF a >= 0 THEN a ELSE -a
\* Math.round(n / m) for m > 0: nearest integer, halves towards +infinity
Round(n, m) == (2 * n + m) \div (2 * m)
\* Math.ceil(n / m) for m > 0
Ceil(n, m) == -((-n) \div m)

Sign(x) == IF x > 0 THEN 1 ELSE IF x < 0 THEN -1 ELSE 0

VARIABLES
    stationsAlongRoute,    \* findStationsAlongRoute(routeData): ordered annotated stations
    stateBorderCrossings,  \* findStateBorderCrossings(stationsAlongRoute, highPriceStates)
    totalDistance,         \* routeData.distance, miles
    currentGallons,        \* argument: fuel in the tank at the start, gallons
    tankSize,              \* argument: gallons
    mpg,                   \* argument: miles per gallon
    currentFuel,           \* gallons
    currentPosition,       \* miles travelled so far
    usedStations,          \* Set of station ids
    stops,                 \* the stop records pushed so far
    via,                   \* history, per stop: the branch that pushed it, the
                           \* station it was built from, the fuel on arrival
    pc,                    \* "loop": at the while test; "done": returned
    exitPath,              \* history: how the loop was left
    seenReachable,         \* history: crossings whose last station was within
                           \* usable range at the start of an iteration
    iterations,            \* history: executions of the loop body so far
    finalFuel,             \* returned finalFuel, in gallons * mpg * 100
    dataset,               \* state.stations: the station data set
    coordinates,           \* routeData.coordinates: the route's points <<lat, lng>>
    engine,                \* the sort algorithm of the JavaScript engine in use
    filterRuns,            \* history: the results of the runs of the corridor filter
    searchWindow,          \* arguments minDistance, maxDistance of a station search
    bestStation            \* what the search returned: <<>> for null, or <<station>>

filterState == <<dataset, coordinates, engine, filterRuns>>

searchState == <<searchWindow, bestStation>>

vars == <<stationsAlongRoute, stateBorderCrossings, totalDistance, currentGallons,
          tankSize, mpg, currentFuel, currentPosition, usedStations, stops, via,
          pc, exitPath, seenReachable, iterations, finalFuel, filterState, searchState>>

inputs == <<stationsAlongRoute, stateBorderCrossings, totalDistance, currentGallons,
            tankSize, mpg, filterState, searchState>>

\* the planner's and the form's specifications take the filter's result as
\* given and hold the filter's own state fixed
FilterIdle ==
    /\ dataset = <<>>
    /\ coordinates = <<>>
    /\ engine = "linearInsertion"
    /\ filterRuns = <<>>

\* no search is under way outside the planner's own calls
SearchIdle ==
    /\ searchWindow = <<>>
    /\ bestStation = <<>>

\* ------------------------------------------------ Array.prototype.sort
\* ECMAScript: a comparator that is a consistent comparison function for the
\* elements gives the one stable ascending order; for any other comparator the
\* order of the result is implementation-defined.
\* sgn[i][j] is the sign of comparefn(list[i], list[j]) for the indices in C
IsConsistent(sgn, C) ==
    /\ sgn \in [C -> [C -> {-1, 0, 1}]]
    /\ \A i \in C : sgn[i][i] = 0
    /\ \A i, j \in C : sgn[i][j] = -sgn[j][i]
    /\ \A i, j, k \in C :
          /\ (sgn[i][j] = 0 /\ sgn[j][k] = 0) => sgn[i][k] = 0
          /\ (sgn[i][j] < 0 /\ sgn[j][k] < 0) => sgn[i][k] < 0

\* the list whose comparisons are sgn, over the indices C, is a result the
\* sort may leave
IsSortResult(sgn, C) ==
    IsConsistent(sgn, C) => \A i, j \in C : i < j => sgn[i][j] <= 0

\* the indices that may stand first after sorting the sub-list at the indices
\* C (kept in list order, as Array.prototype.filter leaves them)
FirstSorted(sgn, C) ==
    IF IsConsistent(sgn, C)
    THEN {c \in C : \A e \in C : sgn[c][e] < 0 \/ (sgn[c][e] = 0 /\ c <= e)}
    ELSE C

\* --------------------------------------------- findStationsAlongRoute
\* comparator of the final sort: stations less than 5 miles apart along the
\* route are ordered by distanceFromRoute, others by distanceFromStart
RouteCompare(a, b) ==
    LET distDiff == a.distanceFromStart - b.distanceFromStart
    IN  IF Abs(distDiff) < 5 THEN a.distanceFromRoute - b.distanceFromRoute ELSE distDiff

RouteSigns(stations) ==
    [i \in DOMAIN stations |->
        [j \in DOMAIN stations |-> Sign(RouteCompare(stations[i], stations[j]))]]

\* ------------------------------------------- findStateBorderCrossings
High(st) == st \in fullTankStates

\* faulty variant: the station just before the border station is skipped
LastStationBeforeSkipping(stations, highPriceStates, i) ==
    LET js == {j \in 1..(i - 2) : stations[j].state \notin highPriceStates}
    IN  IF js = {} THEN 0 ELSE CHOOSE j \in js : \A k \in js : k <= j

\* index of the nearest station before i that is not in a high-price state;
\* 0 stands for null
LastStationBefore(stations, highPriceStates, i) ==
    LET js == {j \in 1..(i - 1) : stations[j].state \notin highPriceStates}
    IN  IF js = {} THEN 0 ELSE CHOOSE j \in js : \A k \in js : k <= j

\* faulty variant: previousState is never updated after the first station
RECURSIVE CrossingsFromFirstState(_, _, _)
CrossingsFromFirstState(stations, highPriceStates, i) ==
    IF i > Len(stations) THEN <<>>
    ELSE (IF /\ stations[i].state \in highPriceStates
             /\ stations[1].state \notin highPriceStates
          THEN << [enteringState |-> stations[i].state,
                   borderDistance |-> stations[i].distanceFromStart,
                   firstStationInState |-> i,
                   lastStationBeforeBorder |->
                       LastStationBefore(stations, highPriceStates, i)] >>
          ELSE <<>>) \o CrossingsFromFirstState(stations, highPriceStates, i + 1)

RECURSIVE CrossingsFrom(_, _, _)
CrossingsFrom(stations, highPriceStates, i) ==
    IF i > Len(stations) THEN <<>>
    ELSE (IF /\ stations[i].state \in highPriceStates
             /\ stations[i - 1].state \notin highPriceStates
          THEN << [enteringState |-> stations[i].state,
                   borderDistance |-> stations[i].distanceFromStart,
                   firstStationInState |-> i,
                   lastStationBeforeBorder |->
                       LastStationBefore(stations, highPriceStates, i)] >>
          ELSE <<>>) \o CrossingsFrom(stations, highPriceStates, i + 1)

findStateBorderCrossings(stations, highPriceStates) ==
    IF Len(stations) < 2 THEN <<>> ELSE CrossingsFrom(stations, highPriceStates, 2)

\* ------------------------------------------------- selection policies
\* findBestStationInRange: the stations that may be returned ({} is null).
\* minDistance and maxDistance are given in hundredths of a mile.
PriceCompare(a, b) ==
    IF Abs(a.price - b.price) >= 5 THEN a.price - b.price
    ELSE LET routeDistDiff == a.distanceFromRoute - b.distanceFromRoute
         IN  IF Abs(routeDistDiff) > 5 THEN routeDistDiff
             ELSE b.distanceFromStart - a.distanceFromStart

PriceSigns(stations, C) ==
    [i \in C |-> [j \in C |-> Sign(PriceCompare(stations[i], stations[j]))]]

InRange(station, minDistance, maxDistance, used) ==
    /\ station.id \notin used
    /\ ~(100 * station.distanceFromStart < minDistance)
    /\ ~(100 * station.distanceFromStart > maxDistance)

\* faulty variant: the candidates are not split into price tiers
AllInRange(minDistance, maxDistance, stations, used) ==
    {i \in 1..Len(stations) : InRange(stations[i], minDistance, maxDistance, used)}

\* the indices of the candidates: the cheapest tier that is not empty
CheapestTier(minDistance, maxDistance, stations, used) ==
    LET reachableStations ==
            {i \in 1..Len(stations) : InRange(stations[i], minDistance, maxDistance, used)}
        excellentTier == {i \in reachableStations : stations[i].price <= excellent}
        goodTier == {i \in reachableStations :
                        stations[i].price > excellent /\ stations[i].price <= good}
        fairTier == {i \in reachableStations :
                        stations[i].price > good /\ stations[i].price <= fair}
        highTier == {i \in reachableStations : stations[i].price > fair}
    IN  IF excellentTier # {} THEN excellentTier
        ELSE IF goodTier # {} THEN goodTier
        ELSE IF fairTier # {} THEN fairTier
        ELSE highTier

findBestStationInRange(minDistance, maxDistance, stations, used) ==
    LET candidates == CheapestTier(minDistance, maxDistance, stations, used)
    IN  {stations[i] : i \in FirstSorted(PriceSigns(stations, candidates), candidates)}

\* findAnyReachableStation: maxRange is given in hundredths of a mile
AnyCompare(a, b) ==
    LET priceDiff == a.price - b.price
    IN  IF Abs(priceDiff) > 5 THEN priceDiff
        ELSE LET routeDistDiff == a.distanceFromRoute - b.distanceFromRoute
             IN  IF Abs(routeDistDiff) > 5 THEN routeDistDiff
                 ELSE b.distanceFromStart - a.distanceFromStart

AnySigns(stations, C) ==
    [i \in C |-> [j \in C |-> Sign(AnyCompare(stations[i], stations[j]))]]

\* faulty variant: a station at the current position counts as ahead
ReachableNotBehind(station, position, maxRange, used) ==
    /\ station.id \notin used
    /\ ~(station.distanceFromStart < position)
    /\ 100 * (station.distanceFromStart - position) <= maxRange

\* faulty variant: the range test is missing
ReachableAnyAhead(station, position, maxRange, used) ==
    /\ station.id \notin used
    /\ ~(station.distanceFromStart <= position)
    /\ station.distanceFromStart - position > 0

Reachable(station, position, maxRange, used) ==
    /\ station.id \notin used
    /\ ~(station.distanceFromStart <= position)
    /\ 100 * (station.distanceFromStart - position) <= maxRange
    /\ station.distanceFromStart - position > 0

findAnyReachableStation(position, maxRange, stations, used) ==
    LET reachable == {i \in 1..Len(stations) :
                         Reachable(stations[i], position, maxRange, used)}
    IN  {stations[i] : i \in FirstSorted(AnySigns(stations, reachable), reachable)}

\* ------------------------------------------------ createStopFromStation
\* the fields of the stop record that depend on the plan; fuelArriving is given
\* in range miles (gallons * mpg), fuelRemaining is in tenths of a gallon, as
\* toFixed(1) rounds it
priceCategoryOf(price) ==
    IF price <= excellent THEN "excellent"
    ELSE IF price <= good THEN "good"
    ELSE IF price <= fair THEN "fair"
    ELSE "high"

createStopFromStation(stopNumber, station, gallonsToAdd, fillAmount, fuelArriving) ==
    [number |-> stopNumber,
     state |-> station.state,
     price |-> station.price,
     priceCategory |-> priceCategoryOf(station.price),
     distance |-> station.distanceFromStart,
     gallonsToAdd |-> gallonsToAdd,
     fuelRemaining |-> Round(10 * fuelArriving, mpg),
     fillAmount |-> fillAmount,
     isFull |-> 100 * fillAmount >= 95 * tankSize,
     savings |-> Max(0, Round((avgNationalPrice - station.price) * gallonsToAdd, 100))]

\* -------------------------------------------------- calculateFuelStops
\* quantities computed at the top of a loop iteration
remainingDistance == totalDistance - currentPosition
usableRangeGallons == Max(0, currentFuel - minArrivalGallons)
usableRange == usableRangeGallons * mpg
\* tankSize * CONFIG.destinationFuelTarget, in hundredths of a gallon
targetFuelAtDestination == tankSize * destinationFuelTarget

\* stateBorderCrossings.find(...): index of the first crossing not yet passed
\* whose last station is set and unused; 0 when find returns undefined
nextBorderCrossing ==
    LET ks == {k \in 1..Len(stateBorderCrossings) :
                 LET crossing == stateBorderCrossings[k]
                 IN  /\ crossing.borderDistance > currentPosition
                     /\ crossing.lastStationBeforeBorder # 0
                     /\ stationsAlongRoute[crossing.lastStationBeforeBorder].id
                           \notin usedStations}
    IN  IF ks = {} THEN 0 ELSE CHOOSE k \in ks : \A m \in ks : k <= m

lastStationBeforeBorder ==
    stationsAlongRoute[stateBorderCrossings[nextBorderCrossing].lastStationBeforeBorder]

\* fuel left on arrival at a station ahead, in range miles
FuelAtStation(station) ==
    currentFuel * mpg - (station.distanceFromStart - currentPosition)

\* Math.max(0, Math.round(fillTo - fuelAtStation)), fuelAtStation in range miles
GallonsToAdd(fillTo, fuelAtStation) ==
    Max(0, Round(fillTo * mpg - fuelAtStation, mpg))

\* fuelAtDestination, in range miles
fuelAtDestination == currentFuel * mpg - remainingDistance

\* faulty variant: the stop number is the length before the push
StopNumberStale == Len(stops)

StopNumber == Len(stops) + 1

\* stops.push(createStopFromStation(...))
PushStop(station, gallonsToAdd, fillAmount, fuelArriving, branch) ==
    /\ stops' = Append(stops, createStopFromStation(StopNumber, station, gallonsToAdd,
                                                    fillAmount, fuelArriving))
    /\ via' = Append(via, [branch |-> branch, station |-> station,
                            fuelArriving |-> fuelArriving])

\* faulty variant: the state update after a stop is lost
AdvanceLost(station) ==
    UNCHANGED <<usedStations, currentFuel, currentPosition>>

\* faulty variant: the tank is left as it was on arrival
AdvanceUnfilled(station) ==
    /\ usedStations' = usedStations \cup {station.id}
    /\ currentFuel' = currentFuel
    /\ currentPosition' = station.distanceFromStart

\* the state update after a full-tank stop
Advance(station) ==
    /\ usedStations' = usedStations \cup {station.id}
    /\ currentFuel' = tankSize
    /\ currentPosition' = station.distanceFromStart

\* faulty variant: calculatedFinalFuel is returned as it is
FinalFuelUnclamped ==
    100 * (currentFuel * mpg - (totalDistance - currentPosition))

\* Math.max(targetFuelAtDestination, calculatedFinalFuel), gallons * mpg * 100
FinalFuel ==
    Max(targetFuelAtDestination * mpg,
        100 * (currentFuel * mpg - (totalDistance - currentPosition)))

\* the statements after the loop
Return(path) ==
    /\ pc' = "done"
    /\ exitPath' = path
    /\ finalFuel' = FinalFuel

\* the crossings whose last station is ahead and within usable range now
ReachableCrossings ==
    {k \in 1..Len(stateBorderCrossings) :
        LET last == stateBorderCrossings[k].lastStationBeforeBorder
        IN  /\ last # 0
            /\ stationsAlongRoute[last].distanceFromStart > currentPosition
            /\ stationsAlongRoute[last].distanceFromStart - currentPosition <= usableRange}

\* a loop iteration starts: the while test holds
InLoop ==
    /\ pc = "loop"
    /\ currentPosition < totalDistance
    /\ seenReachable' = seenReachable \cup ReachableCrossings
    /\ iterations' = iterations + 1

\* PRIORITY 1: the last station before the next border is within usable range
\* and takes at least one gallon
BorderStopDue ==
    /\ nextBorderCrossing # 0
    /\ LET distanceToLastStation ==
               lastStationBeforeBorder.distanceFromStart - currentPosition
       IN  /\ distanceToLastStation > 0
           /\ distanceToLastStation <= usableRange
    /\ GallonsToAdd(tankSize, FuelAtStation(lastStationBeforeBorder)) > 0

BorderPriorityStop ==
    /\ InLoop
    /\ BorderStopDue
    /\ LET fuelAtStation == FuelAtStation(lastStationBeforeBorder)
       IN  PushStop(lastStationBeforeBorder, GallonsToAdd(tankSize, fuelAtStation),
                    tankSize, fuelAtStation, "border")
    /\ Advance(lastStationBeforeBorder)
    /\ UNCHANGED <<inputs, pc, exitPath, finalFuel>>

\* faulty variant: the destination test is made before the border test
DestinationReachableFirst ==
    /\ InLoop
    /\ 100 * fuelAtDestination >= targetFuelAtDestination * mpg
    /\ Return("reachable")
    /\ UNCHANGED <<inputs, currentFuel, currentPosition, usedStations, stops, via>>

\* PRIORITY 2: the destination is reachable with the target reserve
DestinationReachable ==
    /\ InLoop
    /\ ~BorderStopDue
    /\ 100 * fuelAtDestination >= targetFuelAtDestination * mpg
    /\ Return("reachable")
    /\ UNCHANGED <<inputs, currentFuel, currentPosition, usedStations, stops, via>>

\* reachable, but below the target: one more stop, then leave the loop
NearMiss ==
    /\ fuelAtDestination >= 0
    /\ 100 * fuelAtDestination < targetFuelAtDestination * mpg

\* faulty variant: the window is not capped at the usable range
finalSearchMaxUncapped ==
    100 * currentPosition + Max(85 * usableRange, 5000)

finalSearchMax ==
    Min(100 * (currentPosition + usableRange),
        100 * currentPosition + Max(85 * usableRange, 5000))

NearMissStations ==
    findBestStationInRange(100 * currentPosition, finalSearchMax,
                           stationsAlongRoute, usedStations)

NearMissFillTo(stationInRange) ==
    LET willEnterHighPriceState ==
            \E k \in 1..Len(stateBorderCrossings) :
                stateBorderCrossings[k].borderDistance > stationInRange.distanceFromStart
    IN  IF willEnterHighPriceState \/ High(stationInRange.state)
        THEN tankSize
        ELSE LET distanceAfterStation == totalDistance - stationInRange.distanceFromStart
                 \* Math.ceil(distanceAfterStation / mpg + targetFuelAtDestination)
                 fuelNeededCeil == Ceil(100 * distanceAfterStation
                                          + targetFuelAtDestination * mpg, 100 * mpg)
             IN  Min(tankSize, fuelNeededCeil + 5)

\* faulty variant: the near-miss stop is committed as a standard stop is and
\* the loop goes on
NearMissStopContinues ==
    /\ InLoop
    /\ ~BorderStopDue
    /\ NearMiss
    /\ \E stationInRange \in NearMissStations :
          LET fuelAtStation == FuelAtStation(stationInRange)
              fillTo == NearMissFillTo(stationInRange)
              gallonsToAdd == GallonsToAdd(fillTo, fuelAtStation)
          IN  /\ gallonsToAdd > 0
              /\ PushStop(stationInRange, gallonsToAdd, fillTo, fuelAtStation, "nearMiss")
              /\ usedStations' = usedStations \cup {stationInRange.id}
              /\ currentFuel' = fillTo
              /\ currentPosition' = stationInRange.distanceFromStart
    /\ UNCHANGED <<inputs, pc, exitPath, finalFuel>>

NearMissStop ==
    /\ InLoop
    /\ ~BorderStopDue
    /\ NearMiss
    /\ \E stationInRange \in NearMissStations :
          LET fuelAtStation == FuelAtStation(stationInRange)
              fillTo == NearMissFillTo(stationInRange)
              gallonsToAdd == GallonsToAdd(fillTo, fuelAtStation)
          IN  /\ gallonsToAdd > 0
              /\ PushStop(stationInRange, gallonsToAdd, fillTo, fuelAtStation, "nearMiss")
              /\ usedStations' = usedStations \cup {stationInRange.id}
    /\ Return("nearMissStop")
    /\ UNCHANGED <<inputs, currentFuel, currentPosition>>

NearMissNoStop ==
    /\ InLoop
    /\ ~BorderStopDue
    /\ NearMiss
    /\ \/ NearMissStations = {}
       \/ \E stationInRange \in NearMissStations :
             GallonsToAdd(NearMissFillTo(stationInRange), FuelAtStation(stationInRange)) = 0
    /\ Return("nearMissNoStop")
    /\ UNCHANGED <<inputs, currentFuel, currentPosition, usedStations, stops, via>>

\* the destination is out of reach: a fuel stop is needed
CannotReach == fuelAtDestination < 0

\* faulty variant: 90% of the whole range, the arrival reserve included
maxReachableDistanceNoReserve == 100 * currentPosition + Max(90 * currentFuel * mpg, 1000)

maxReachableDistance == 100 * currentPosition + Max(90 * usableRange, 1000)

NextStations ==
    findBestStationInRange(100 * (currentPosition + 20), maxReachableDistance,
                           stationsAlongRoute, usedStations)

StandardStop ==
    /\ InLoop
    /\ ~BorderStopDue
    /\ CannotReach
    /\ \E nextStation \in NextStations :
          LET fuelAtStation == FuelAtStation(nextStation)
          IN  IF fuelAtStation < minArrivalGallons * mpg
              THEN \* discard: mark used, restart the iteration
                   /\ usedStations' = usedStations \cup {nextStation.id}
                   /\ UNCHANGED <<currentFuel, currentPosition, stops, via>>
              ELSE /\ PushStop(nextStation, GallonsToAdd(tankSize, fuelAtStation),
                               tankSize, fuelAtStation, "standard")
                   /\ Advance(nextStation)
    /\ UNCHANGED <<inputs, pc, exitPath, finalFuel>>

\* faulty variant: the range left above the arrival reserve
ExpandedStationsUsableRange ==
    findAnyReachableStation(currentPosition, 95 * usableRange,
                            stationsAlongRoute, usedStations)

\* faulty variant: the range of a full tank instead of the fuel on board
ExpandedStationsTankRange ==
    findAnyReachableStation(currentPosition, 95 * tankSize * mpg,
                            stationsAlongRoute, usedStations)

ExpandedStations ==
    findAnyReachableStation(currentPosition, 95 * currentFuel * mpg,
                            stationsAlongRoute, usedStations)

ExpandedStop ==
    /\ InLoop
    /\ ~BorderStopDue
    /\ CannotReach
    /\ NextStations = {}
    /\ \E expandedStation \in ExpandedStations :
          LET fuelAtStation == FuelAtStation(expandedStation)
          IN  /\ PushStop(expandedStation,
                          Round(tankSize * mpg - Max(0, fuelAtStation), mpg),
                          tankSize, Max(0, fuelAtStation), "expanded")
              /\ Advance(expandedStation)
    /\ UNCHANGED <<inputs, pc, exitPath, finalFuel>>

NoReachableStation ==
    /\ InLoop
    /\ ~BorderStopDue
    /\ CannotReach
    /\ NextStations = {}
    /\ ExpandedStations = {}
    /\ Return("noStation")
    /\ UNCHANGED <<inputs, currentFuel, currentPosition, usedStations, stops, via>>

\* the while test fails
LoopExit ==
    /\ pc = "loop"
    /\ ~(currentPosition < totalDistance)
    /\ Return("loopCondition")
    /\ UNCHANGED <<inputs, currentFuel, currentPosition, usedStations, stops, via,
                   seenReachable, iterations>>

\* ------------------------------------- the tests after the standard search
\* One iteration with currentFuel = fuel and mpg = economy, for a station
\* d miles ahead of currentPosition.
MaxEconomy == 10

\* findBestStationInRange(currentPosition + 20, maxReachableDistance, ...) can
\* return the station
NarrowWindowReturns(fuel, economy, d) ==
    /\ d >= 20
    /\ 100 * d <= Max(90 * Max(0, fuel - minArrivalGallons) * economy, 1000)

\* if (fuelAtStation < CONFIG.minArrivalGallons) { usedStations.add(...); continue; }
DiscardedAt(fuel, economy, d) ==
    fuel * economy - d < minArrivalGallons * economy

\* the second test of the same condition, reached when the first one failed:
\* the block that calls findClosestReachableStation
EmergencyAt(fuel, economy, d) ==
    /\ ~DiscardedAt(fuel, economy, d)
    /\ fuel * economy - d < minArrivalGallons * economy

\* -------------------------------------------- the empty corridor
\* calculateFuelStops on a corridor without stations, as a function of its
\* arguments: the loop body runs at most once, no branch can find a station,
\* and the result is an empty stop list with this finalFuel
EmptyCorridorExit(gallons, tank, economy, distance) ==
    IF ~(0 < distance) THEN "loopCondition"
    ELSE IF 100 * (gallons * economy - distance) >= tank * destinationFuelTarget * economy
         THEN "reachable"
    ELSE IF gallons * economy - distance >= 0 THEN "nearMissNoStop"
    ELSE "noStation"

EmptyCorridorFinalFuel(gallons, tank, economy, distance) ==
    Max(tank * destinationFuelTarget * economy, 100 * (gallons * economy - distance))

\* ------------------------------------------------------ specification
Annotation ==
    {[distanceFromStart |-> m, distanceFromRoute |-> o, state |-> k.state, price |-> k.price] :
        m \in StationMiles, o \in RouteOffsets, k \in StationKinds}

WithIds(f) ==
    [i \in DOMAIN f |-> [id |-> i,
                         distanceFromStart |-> f[i].distanceFromStart,
                         distanceFromRoute |-> f[i].distanceFromRoute,
                         state |-> f[i].state,
                         price |-> f[i].price]]

Init ==
    /\ \E n \in 0..MaxStations : \E f \in [1..n -> Annotation] :
          /\ \A i \in 1..n : f[i].distanceFromRoute <= routeBuffer
          /\ IsSortResult(RouteSigns(WithIds(f)), 1..n)
          /\ stationsAlongRoute = WithIds(f)
    /\ totalDistance \in RouteDistances
    \* distanceFromStart = routeProgress * routeData.distance, routeProgress in [0, 1]
    /\ \A i \in 1..Len(stationsAlongRoute) :
          stationsAlongRoute[i].distanceFromStart <= totalDistance
    /\ stateBorderCrossings = findStateBorderCrossings(stationsAlongRoute, fullTankStates)
    /\ tankSize \in TankSizes
    /\ currentGallons \in Gallons
    /\ currentGallons <= tankSize
    /\ mpg \in MpgValues
    /\ currentFuel = currentGallons
    /\ currentPosition = 0
    /\ usedStations = {}
    /\ stops = <<>>
    /\ via = <<>>
    /\ pc = "loop"
    /\ exitPath = "none"
    /\ seenReachable = {}
    /\ iterations = 0
    /\ finalFuel = 0
    /\ SearchIdle
    /\ FilterIdle

Next ==
    \/ BorderPriorityStop
    \/ DestinationReachable
    \/ NearMissStop
    \/ NearMissNoStop
    \/ StandardStop
    \/ ExpandedStop
    \/ NoReachableStation
    \/ LoopExit

Spec == Init /\ [][Next]_vars

\* ---------------------------------------------------- the corridor filter
\* findStationsAlongRoute on a flat grid of miles.  A point is <<lat, lng>>;
\* the distance between two points is kept squared, which orders distances
\* as the distances themselves do.  The route's length is a multiple of its
\* number of segments, so distanceFromStart is a whole number of miles.
MaxDataset == 3
MaxRuns == 2
StationPoints == {<<2, 0>>, <<1, 2>>, <<1, 4>>, <<0, 8>>, <<3, 8>>, <<5, 4>>}
Routes == {<< <<0, 0>>, <<0, 4>> >>, << <<0, 0>>, <<0, 4>>, <<0, 8>> >>}
FilterRouteDistances == {0, 8, 200}
Engines == {"linearInsertion", "binaryInsertion"}

haversineDistanceSquared(lat1, lon1, lat2, lon2) ==
    (lat2 - lat1) * (lat2 - lat1) + (lon2 - lon1) * (lon2 - lon1)

\* squared distance from a station to the route point at index i (from 0)
DistanceToPoint(station, coords, i) ==
    haversineDistanceSquared(station.lat, station.lng, coords[i + 1][1], coords[i + 1][2])

\* the loop over the route: the first index at which the distance is least
closestRouteIndex(station, coords) ==
    CHOOSE i \in 0..(Len(coords) - 1) :
        /\ \A j \in 0..(Len(coords) - 1) :
              DistanceToPoint(station, coords, i) <= DistanceToPoint(station, coords, j)
        /\ \A j \in 0..(i - 1) :
              DistanceToPoint(station, coords, j) > DistanceToPoint(station, coords, i)

minDistanceSquared(station, coords) ==
    DistanceToPoint(station, coords, closestRouteIndex(station, coords))

\* { ...station, distanceFromStart, distanceFromRoute, routeIndex }
Annotated(station, coords, distance) ==
    [id |-> station.id, lat |-> station.lat, lng |-> station.lng,
     distanceFromStart |->
         (closestRouteIndex(station, coords) * distance) \div (Len(coords) - 1),
     distanceFromRoute |-> minDistanceSquared(station, coords),
     routeIndex |-> closestRouteIndex(station, coords)]

\* dataset.forEach: the stations within routeBuffer of the route, annotated,
\* in the order of the data set
RECURSIVE NearRoute(_, _, _)
NearRoute(data, coords, distance) ==
    IF data = <<>> THEN <<>>
    ELSE (IF 100 * minDistanceSquared(Head(data), coords) <= routeBuffer * routeBuffer
          THEN <<Annotated(Head(data), coords, distance)>>
          ELSE <<>>)
         \o NearRoute(Tail(data), coords, distance)

\* array.sort(comparefn) as an engine runs it; comparefn names the comparator.
Compare(comparefn, a, b) ==
    IF comparefn = "route" THEN RouteCompare(a, b) ELSE PriceCompare(a, b)

\* Insertion from the right with a linear scan:
RECURSIVE LinearInsert(_, _, _)
LinearInsert(comparefn, sorted, element) ==
    IF sorted = <<>> THEN <<element>>
    ELSE LET last == sorted[Len(sorted)]
         IN  IF Compare(comparefn, last, element) > 0
             THEN Append(LinearInsert(comparefn, SubSeq(sorted, 1, Len(sorted) - 1), element), last)
             ELSE Append(sorted, element)

RECURSIVE LinearInsertionSort(_, _)
LinearInsertionSort(comparefn, list) ==
    IF list = <<>> THEN <<>>
    ELSE LinearInsert(comparefn, LinearInsertionSort(comparefn, SubSeq(list, 1, Len(list) - 1)),
                      list[Len(list)])

\* insertion at the slot found by binary search; left and right count from 0
RECURSIVE BinarySlot(_, _, _, _, _)
BinarySlot(comparefn, sorted, pivot, left, right) ==
    IF left >= right THEN left
    ELSE LET mid == left + ((right - left) \div 2)
         IN  IF Compare(comparefn, pivot, sorted[mid + 1]) < 0
             THEN BinarySlot(comparefn, sorted, pivot, left, mid)
             ELSE BinarySlot(comparefn, sorted, pivot, mid + 1, right)

BinaryInsert(comparefn, sorted, pivot) ==
    LET slot == BinarySlot(comparefn, sorted, pivot, 0, Len(sorted))
    IN  SubSeq(sorted, 1, slot) \o <<pivot>> \o SubSeq(sorted, slot + 1, Len(sorted))

\* the length of the run at the head of the list, of at least two elements:
\* strictly descending if the second element is less than the first,
\* otherwise ascending; k is the run found so far
RECURSIVE RunLength(_, _, _, _)
RunLength(comparefn, list, isDescending, k) ==
    IF k = Len(list) THEN k
    ELSE LET order == Compare(comparefn, list[k + 1], list[k])
         IN  IF (isDescending /\ order >= 0) \/ (~isDescending /\ order < 0) THEN k
             ELSE RunLength(comparefn, list, isDescending, k + 1)

Reversed(list) == [i \in 1..Len(list) |-> list[Len(list) + 1 - i]]

\* the elements of the list from index k on, inserted one by one
RECURSIVE InsertFrom(_, _, _, _)
InsertFrom(comparefn, sorted, list, k) ==
    IF k > Len(list) THEN sorted
    ELSE InsertFrom(comparefn, BinaryInsert(comparefn, sorted, list[k]), list, k + 1)

\* a short array in a merge sort by runs: the head run is made ascending and
\* the rest is inserted by binary search
BinaryInsertionSort(comparefn, list) ==
    IF Len(list) < 2 THEN list
    ELSE LET isDescending == Compare(comparefn, list[2], list[1]) < 0
             runLength == RunLength(comparefn, list, isDescending, 2)
             run == SubSeq(list, 1, runLength)
         IN  InsertFrom(comparefn, IF isDescending THEN Reversed(run) ELSE run, list, runLength + 1)

SortedBy(algorithm, comparefn, list) ==
    IF algorithm = "linearInsertion" THEN LinearInsertionSort(comparefn, list)
    ELSE BinaryInsertionSort(comparefn, list)

findStationsAlongRoute(data, coords, distance, algorithm) ==
    IF Len(data) = 0 THEN <<>>
    ELSE SortedBy(algorithm, "route", NearRoute(data, coords, distance))

\* faulty variant: the annotations are written into the stations of the data
\* set and the data set itself is sorted
DatasetSortedInPlace(data, coords, distance, algorithm) ==
    SortedBy(algorithm, "route",
             [i \in DOMAIN data |-> Annotated(data[i], coords, distance)])

\* state.stations after a run: the results are copies in a new array, and the
\* sort is of that array
DatasetAfterFilter(data, coords, distance, algorithm) == data

FilterInit ==
    /\ \E n \in 0..MaxDataset : \E points \in [1..n -> StationPoints] :
          dataset = [i \in 1..n |-> [id |-> i, lat |-> points[i][1], lng |-> points[i][2]]]
    /\ coordinates \in Routes
    /\ totalDistance \in FilterRouteDistances
    /\ engine \in Engines
    /\ filterRuns = <<>>
    /\ stationsAlongRoute = <<>>
    /\ stateBorderCrossings = <<>>
    /\ currentGallons = 0
    /\ tankSize = 0
    /\ mpg = 0
    /\ currentFuel = 0
    /\ currentPosition = 0
    /\ usedStations = {}
    /\ stops = <<>>
    /\ via = <<>>
    /\ pc = "filter"
    /\ exitPath = "none"
    /\ seenReachable = {}
    /\ iterations = 0
    /\ finalFuel = 0
    /\ SearchIdle

\* one call of findStationsAlongRoute(routeData)
RunFilter ==
    /\ pc = "filter"
    /\ Len(filterRuns) < MaxRuns
    /\ filterRuns' = Append(filterRuns,
                            findStationsAlongRoute(dataset, coordinates, totalDistance, engine))
    /\ dataset' = DatasetAfterFilter(dataset, coordinates, totalDistance, engine)
    /\ UNCHANGED <<stationsAlongRoute, stateBorderCrossings, totalDistance, currentGallons,
                   tankSize, mpg, currentFuel, currentPosition, usedStations, stops, via,
                   pc, exitPath, seenReachable, iterations, finalFuel, coordinates, engine,
                   searchState>>

FilterNext == RunFilter

FilterSpec == FilterInit /\ [][FilterNext]_vars

\* ------------------------------------------------- the border crossings
\* findStateBorderCrossings applied to ordered station lists over three
\* states, two of them high-price.  Station i stands at mile 10 * i.
MaxCrossingStations == 4
CrossingStates == {"NV", "CA", "WA"}

CrossingInit ==
    /\ \E n \in 0..MaxCrossingStations : \E st \in [1..n -> CrossingStates] :
          stationsAlongRoute =
              [i \in 1..n |-> [id |-> i, distanceFromStart |-> 10 * i,
                               distanceFromRoute |-> 0, state |-> st[i],
                               price |-> avgNationalPrice]]
    /\ stateBorderCrossings = <<>>
    /\ totalDistance = 10 * (MaxCrossingStations + 1)
    /\ currentGallons = 0
    /\ tankSize = 0
    /\ mpg = 0
    /\ currentFuel = 0
    /\ currentPosition = 0
    /\ usedStations = {}
    /\ stops = <<>>
    /\ via = <<>>
    /\ pc = "crossings"
    /\ exitPath = "none"
    /\ seenReachable = {}
    /\ iterations = 0
    /\ finalFuel = 0
    /\ SearchIdle
    /\ FilterIdle

\* const stateBorderCrossings = findStateBorderCrossings(stationsAlongRoute, highPriceStates)
FindCrossings ==
    /\ pc = "crossings"
    /\ stateBorderCrossings' = findStateBorderCrossings(stationsAlongRoute, fullTankStates)
    /\ pc' = "crossed"
    /\ UNCHANGED <<stationsAlongRoute, totalDistance, currentGallons, tankSize, mpg,
                   currentFuel, currentPosition, usedStations, stops, via, exitPath,
                   seenReachable, iterations, finalFuel, filterState, searchState>>

CrossingNext == FindCrossings

CrossingSpec == CrossingInit /\ [][CrossingNext]_vars

\* ---------------------------------------------------- the station search
\* findBestStationInRange as an engine runs it, applied to station lists in
\* route order: station i stands at mile 10 * i.  Prices are in cents, the
\* window in hundredths of a mile, distanceFromRoute in tenths of a mile.
\* No two prices of one tier differ by exactly 5 cents, where the floating
\* point difference could fall on either side of 0.05.
MaxSearchStations == 3
SearchPrices == {295, 298, 300, 304, 308, 340, 365}
SearchOffsets == {0, 10}
SearchWindows == {<<0, 4000>>, <<1500, 2500>>}
SearchUsed == {{}, {2}}

\* the sub-list of the stations at the indices C, from index i on, in list
\* order (Array.prototype.filter)
RECURSIVE Filtered(_, _, _)
Filtered(stations, C, i) ==
    IF i > Len(stations) THEN <<>>
    ELSE (IF i \in C THEN <<stations[i]>> ELSE <<>>) \o Filtered(stations, C, i + 1)

\* candidates.sort(...); best = candidates[0]; return best || null
bestStationBy(algorithm, minDistance, maxDistance, stations, used) ==
    LET candidates == Filtered(stations,
                               CheapestTier(minDistance, maxDistance, stations, used), 1)
        sorted == SortedBy(algorithm, "price", candidates)
    IN  IF sorted = <<>> THEN <<>> ELSE <<sorted[1]>>

SearchInit ==
    /\ \E n \in 0..MaxSearchStations :
          \E price \in [1..n -> SearchPrices], offset \in [1..n -> SearchOffsets] :
              stationsAlongRoute =
                  [i \in 1..n |-> [id |-> i, distanceFromStart |-> 10 * i,
                                   distanceFromRoute |-> offset[i], state |-> "NV",
                                   price |-> price[i]]]
    /\ searchWindow \in SearchWindows
    /\ usedStations \in SearchUsed
    /\ engine \in Engines
    /\ bestStation = <<>>
    /\ stateBorderCrossings = <<>>
    /\ totalDistance = 10 * (MaxSearchStations + 1)
    /\ currentGallons = 0
    /\ tankSize = 0
    /\ mpg = 0
    /\ currentFuel = 0
    /\ currentPosition = 0
    /\ stops = <<>>
    /\ via = <<>>
    /\ pc = "search"
    /\ exitPath = "none"
    /\ seenReachable = {}
    /\ iterations = 0
    /\ finalFuel = 0
    /\ dataset = <<>>
    /\ coordinates = <<>>
    /\ filterRuns = <<>>

\* one call findBestStationInRange(minDistance, maxDistance, stationsAlongRoute, usedStations)
RunSearch ==
    /\ pc = "search"
    /\ bestStation' = bestStationBy(engine, searchWindow[1], searchWindow[2],
                                    stationsAlongRoute, usedStations)
    /\ pc' = "searched"
    /\ UNCHANGED <<stationsAlongRoute, stateBorderCrossings, totalDistance, currentGallons,
                   tankSize, mpg, currentFuel, currentPosition, usedStations, stops, via,
                   exitPath, seenReachable, iterations, finalFuel, filterState, searchWindow>>

SearchNext == RunSearch

SearchSpec == SearchInit /\ [][SearchNext]_vars

\* ------------------------------------------------------------ the form
\* handleCalculate reads the vehicle parameters from the form with parseInt
\* and parseFloat, which accept any number, validates, and calls
\* calculateFuelStops on the route it obtained.  pc = "form" is the state
\* before the click.
FormGallons == {-5, 0, 15, 30, 50, 150, 200}
FormTankSizes == {-5, 0, 60, 150}
FormMpg == {-1, 0, 7}
ZipLengths == {0, 5}

FormInit ==
    /\ currentGallons \in FormGallons
    /\ tankSize \in FormTankSizes
    /\ mpg \in FormMpg
    /\ totalDistance \in RouteDistances
    /\ stationsAlongRoute = <<>>
    /\ stateBorderCrossings = <<>>
    /\ currentFuel = 0
    /\ currentPosition = 0
    /\ usedStations = {}
    /\ stops = <<>>
    /\ via = <<>>
    /\ pc = "form"
    /\ exitPath = "none"
    /\ seenReachable = {}
    /\ iterations = 0
    /\ finalFuel = 0
    /\ SearchIdle
    /\ FilterIdle

\* the checks before showLoading()
FormValid(startZip, endZip) ==
    /\ startZip = 5
    /\ endZip = 5
    /\ ~(currentGallons > tankSize)

\* showError(...); return
handleCalculateRejects ==
    /\ pc = "form"
    /\ \E startZip \in ZipLengths, endZip \in ZipLengths : ~FormValid(startZip, endZip)
    /\ pc' = "rejected"
    /\ UNCHANGED <<inputs, currentFuel, currentPosition, usedStations, stops, via,
                   exitPath, seenReachable, iterations, finalFuel>>

\* the call of calculateFuelStops: its locals are initialised and the loop
\* condition is evaluated next
handleCalculatePlans ==
    /\ pc = "form"
    /\ \E startZip \in ZipLengths, endZip \in ZipLengths : FormValid(startZip, endZip)
    /\ currentFuel' = currentGallons
    /\ currentPosition' = 0
    /\ usedStations' = {}
    /\ stops' = <<>>
    /\ pc' = "loop"
    /\ UNCHANGED <<inputs, via, exitPath, seenReachable, iterations, finalFuel>>

FormNext ==
    \/ handleCalculateRejects
    \/ handleCalculatePlans

FormSpec == FormInit /\ [][FormNext]_vars

\* ------------------------------------------------------------ properties
\* The plan is read back from the output: the vehicle leaves the start with
\* currentGallons and leaves stop k with that stop's fill level.
StopPosition(k) == IF k = 0 THEN 0 ELSE via[k].station.distanceFromStart
\* fuel on leaving stop k (k = 0: the start), in range miles
FuelLeaving(k) == IF k = 0 THEN currentGallons * mpg ELSE stops[k].fillAmount * mpg
\* simulated fuel on arrival at stop k, in range miles
ArrivalFuel(k) == FuelLeaving(k - 1) - (StopPosition(k) - StopPosition(k - 1))
\* simulated fuel at the destination, in range miles
DestinationFuel ==
    FuelLeaving(Len(stops)) - (totalDistance - StopPosition(Len(stops)))

\* C1: no station id appears more than once in the stop list, whichever
\* branch committed each stop
NoDuplicateStops ==
    \A i, j \in 1..Len(stops) : i # j => via[i].station.id # via[j].station.id

\* a finished plan of two or more stops whose last stop came from the near-miss
\* search, whose window starts at the station just used
NoDuplicateStopsWitness ==
    /\ pc = "done"
    /\ Len(stops) >= 2
    /\ via[Len(stops)].branch = "nearMiss"
    /\ via[Len(stops) - 1].branch \in {"border", "standard", "expanded"}

\* C5: the simulated fuel on arrival at every stop is at least zero
FuelOnArrivalNonNegative ==
    \A k \in 1..Len(stops) : ArrivalFuel(k) >= 0

\* a stop of the expanded search reached with less than the arrival reserve
FuelOnArrivalWitness ==
    \E k \in 1..Len(stops) :
        /\ via[k].branch = "expanded"
        /\ ArrivalFuel(k) < minArrivalGallons * mpg
        /\ ArrivalFuel(k) = via[k].fuelArriving

\* C8: the returned finalFuel is the larger of 0.75 x tankSize and
\* currentFuel - remainingDistance / mpg on the state at loop exit; it is at
\* least 0.75 x tankSize on a successful exit and never negative
FinalFuelIsClampedEstimate ==
    pc = "done" =>
        LET calculatedFinalFuel ==
                100 * (currentFuel * mpg - (totalDistance - currentPosition))
            target == 75 * tankSize * mpg
        IN  /\ finalFuel = IF calculatedFinalFuel > target
                           THEN calculatedFinalFuel ELSE target
            /\ finalFuel >= 0
            /\ exitPath \in {"reachable", "nearMissStop", "nearMissNoStop",
                             "loopCondition"} => finalFuel >= target

\* the planner gave up with the destination out of reach, and the clamp
\* replaced a negative estimate
FinalFuelWitness ==
    /\ pc = "done"
    /\ exitPath = "noStation"
    /\ currentFuel * mpg < totalDistance - currentPosition
    /\ finalFuel = 75 * tankSize * mpg

\* C9: the k-th stop of the list has number k
StopNumbersContiguous ==
    \A k \in 1..Len(stops) : stops[k].number = k

\* a finished plan of three stops
StopNumbersWitness ==
    /\ pc = "done"
    /\ Len(stops) = 3

\* C10: each stop's distanceFromStart is strictly greater than that of the
\* stop before it
MonotonicProgress ==
    \A k \in 2..Len(stops) :
        via[k].station.distanceFromStart > via[k - 1].station.distanceFromStart

\* a finished plan whose last stop came from the near-miss search while an
\* unused station shared the distanceFromStart of the stop before it
MonotonicProgressWitness ==
    /\ pc = "done"
    /\ Len(stops) >= 2
    /\ via[Len(stops)].branch = "nearMiss"
    /\ \E i \in 1..Len(stationsAlongRoute) :
          /\ stationsAlongRoute[i].id \notin usedStations
          /\ stationsAlongRoute[i].distanceFromStart
                = via[Len(stops) - 1].station.distanceFromStart
\* C2: for every crossing whose last station was ahead and within usable
\* range at the start of some iteration, the finished plan holds a stop filled
\* to the full tank at or before that station and no later than the border
BorderRule ==
    pc = "done" =>
        \A k \in seenReachable :
            LET crossing == stateBorderCrossings[k]
                last == stationsAlongRoute[crossing.lastStationBeforeBorder]
            IN  \E n \in 1..Len(stops) :
                    /\ stops[n].fillAmount = tankSize
                    /\ via[n].station.distanceFromStart <= last.distanceFromStart
                    /\ via[n].station.distanceFromStart <= crossing.borderDistance

\* the nearest unprocessed crossing has its last station at a positive
\* distance within usable range
BorderStationInRange ==
    /\ pc = "loop"
    /\ currentPosition < totalDistance
    /\ nextBorderCrossing # 0
    /\ lastStationBeforeBorder.distanceFromStart - currentPosition > 0
    /\ lastStationBeforeBorder.distanceFromStart - currentPosition <= usableRange

\* the step commits a full-tank stop at the last station before the border
\* and goes back to the loop test
BorderStopCommitted ==
    /\ Len(stops') = Len(stops) + 1
    /\ via'[Len(stops')].station = lastStationBeforeBorder
    /\ stops'[Len(stops')].fillAmount = tankSize
    /\ currentFuel' = tankSize
    /\ pc' = "loop"

BorderScenario ==
    /\ totalDistance = 300
    /\ Len(stateBorderCrossings) = 1
    /\ stateBorderCrossings[1].borderDistance = 100
    /\ Cardinality({i \in 1..Len(stationsAlongRoute) :
                       stationsAlongRoute[i].distanceFromStart = 90}) = 1
    /\ Cardinality({i \in 1..Len(stationsAlongRoute) :
                       stationsAlongRoute[i].distanceFromStart = 100}) = 1
    /\ \A i \in 1..Len(stationsAlongRoute) :
          /\ stationsAlongRoute[i].distanceFromStart <= 100
          /\ High(stationsAlongRoute[i].state)
                <=> stationsAlongRoute[i].distanceFromStart = 100

\* C4: on the route of the scenario the finished plan holds a full-tank stop
\* at the mile-90 station
BorderScenarioStop ==
    (pc = "done" /\ BorderScenario) =>
        \E n \in 1..Len(stops) :
            /\ via[n].station.distanceFromStart = 90
            /\ stops[n].fillAmount = tankSize

DestinationReserve ==
    (pc = "done" /\ exitPath \in {"reachable", "nearMissStop"}) =>
        100 * DestinationFuel >= 75 * tankSize * mpg - mpg
\* C11: the loop body runs at most as many times as there are corridor
\* stations
IterationsWithinStationCount ==
    iterations <= Len(stationsAlongRoute)

\* C11, amended: every iteration that does not leave the loop marks one more
\* corridor station used, so at the loop test the iterations made equal the
\* stations used, and the loop body runs at most once more than there are
\* corridor stations
IterationsBounded ==
    /\ usedStations \subseteq {stationsAlongRoute[i].id : i \in 1..Len(stationsAlongRoute)}
    /\ iterations <= Len(stationsAlongRoute) + 1
    /\ pc = "loop" => iterations = Cardinality(usedStations)
    /\ pc = "done" => iterations <= Cardinality(usedStations) + 1

\* the planner has returned after using all three stations of the corridor
\* in three iterations and leaving the loop in a fourth
IterationsBoundedWitness ==
    /\ pc = "done"
    /\ Len(stationsAlongRoute) = 3
    /\ Cardinality(usedStations) = 3
    /\ iterations = 4
\* C12: the result of a failure halt with an empty stop list differs from
\* every result a run can return when it ends with an empty stop list and
\* the destination within reach
FailureHaltDistinguishable ==
    (pc = "done" /\ exitPath = "noStation" /\ stops = <<>>) =>
        \A gallons \in Gallons, distance \in RouteDistances :
            (/\ gallons <= tankSize
             /\ EmptyCorridorExit(gallons, tankSize, mpg, distance) # "noStation")
            => EmptyCorridorFinalFuel(gallons, tankSize, mpg, distance) # finalFuel

\* on an empty corridor the planner ends as the function says
EmptyCorridorAgrees ==
    (pc = "done" /\ Len(stationsAlongRoute) = 0) =>
        /\ exitPath = EmptyCorridorExit(currentGallons, tankSize, mpg, totalDistance)
        /\ finalFuel = EmptyCorridorFinalFuel(currentGallons, tankSize, mpg, totalDistance)
        /\ stops = <<>>
\* C13: on a route of length 0 the planner returns no stops and a finalFuel
\* equal to the current fuel it was given
DegenerateRoute ==
    (pc = "done" /\ totalDistance = 0) =>
        /\ stops = <<>>
        /\ finalFuel = 100 * currentGallons * mpg
\* the corridor holds exactly one station, ahead of the start and within the
\* range of the current fuel, and the destination is out of that range
SingleStationAhead ==
    /\ Len(stationsAlongRoute) = 1
    /\ stationsAlongRoute[1].distanceFromStart > 0
    /\ stationsAlongRoute[1].distanceFromStart <= currentGallons * mpg
    /\ currentGallons * mpg < totalDistance

\* the plan is one stop, at the only station, filled to at least the fuel for
\* the rest of the route plus 0.75 x tankSize
SingleStationPlan ==
    /\ Len(stops) = 1
    /\ via[1].station = stationsAlongRoute[1]
    /\ 100 * stops[1].fillAmount * mpg
          >= 100 * (totalDistance - stationsAlongRoute[1].distanceFromStart)
               + 75 * tankSize * mpg

\* C14: with a single station ahead and in range and the destination out of
\* range, the finished plan is one sufficient stop at that station
SingleStationScenario ==
    (pc = "done" /\ SingleStationAhead) => SingleStationPlan

\* C14, amended: the same when the station is within 95% of the range of the
\* current fuel and the rest of the route takes no more than a quarter of a
\* tank
SingleStationScenarioInReach ==
    (/\ pc = "done"
     /\ SingleStationAhead
     /\ 100 * stationsAlongRoute[1].distanceFromStart <= 95 * currentGallons * mpg
     /\ 100 * (totalDistance - stationsAlongRoute[1].distanceFromStart)
          <= 25 * tankSize * mpg)
    => SingleStationPlan

\* the example: 300 miles, tank 150, 30 gallons, 7 mpg, one station at mile
\* 180, planned with one stop
SingleStationWitness ==
    /\ pc = "done"
    /\ SingleStationAhead
    /\ totalDistance = 300 /\ tankSize = 150 /\ currentGallons = 30 /\ mpg = 7
    /\ stationsAlongRoute[1].distanceFromStart = 180
    /\ Len(stops) = 1
    /\ via[1].branch = "expanded"
FilterResultSorted ==
    \A r \in 1..Len(filterRuns) : IsSortResult(RouteSigns(filterRuns[r]), DOMAIN filterRuns[r])
\* the iteration that starts in this state takes the near-miss branch
EntersNearMiss ==
    /\ pc = "loop"
    /\ currentPosition < totalDistance
    /\ ~BorderStopDue
    /\ NearMiss

\* a stop of the near-miss branch is the last stop, and the loop has ended
NearMissStopIsLast ==
    \A k \in 1..Len(via) :
        via[k].branch = "nearMiss" => (k = Len(via) /\ pc = "done")

\* C17: the iteration that enters the near-miss branch ends the loop, and a
\* near-miss stop is the last stop of the plan, so there is at most one and
\* no other stop is committed after it
NearMissEndsThePlan ==
    [][/\ EntersNearMiss => pc' = "done"
       /\ NearMissStopIsLast'
       /\ (\E k \in 1..Len(via) : via[k].branch = "nearMiss") => stops' = stops]_vars

\* a finished plan of two stops, the second one from the near-miss branch
NearMissEndsThePlanWitness ==
    /\ pc = "done"
    /\ Len(stops) = 2
    /\ via[1].branch # "nearMiss"
    /\ via[2].branch = "nearMiss"
\* the unused stations from currentPosition up to upper (hundredths of a mile)
UnusedStationsUpTo(upper) ==
    {i \in 1..Len(stationsAlongRoute) :
        /\ stationsAlongRoute[i].id \notin usedStations
        /\ stationsAlongRoute[i].distanceFromStart >= currentPosition
        /\ 100 * stationsAlongRoute[i].distanceFromStart <= upper}

\* a step of the near-miss branch searches exactly the stations of window: a
\* stop it commits is at one of them, and if there is one it commits a stop
\* unless that station needs no fuel added
NearMissSearches(window) ==
    /\ stops' # stops =>
          \E i \in window : via'[Len(via')].station = stationsAlongRoute[i]
    /\ window # {} =>
          \/ stops' # stops
          \/ \E i \in window :
                GallonsToAdd(NearMissFillTo(stationsAlongRoute[i]),
                             FuelAtStation(stationsAlongRoute[i])) = 0

\* C18: the near-miss search covers the unused stations between
\* currentPosition and currentPosition + max(0.85 x usableRange, 50 miles)
NearMissWindow ==
    [][EntersNearMiss =>
          NearMissSearches(UnusedStationsUpTo(
              100 * currentPosition + Max(85 * usableRange, 5000)))]_vars

\* C18, amended: the upper end is currentPosition + min(usableRange,
\* max(0.85 x usableRange, 50 miles))
NearMissWindowCapped ==
    [][EntersNearMiss =>
          NearMissSearches(UnusedStationsUpTo(
              100 * currentPosition
                + Min(100 * usableRange, Max(85 * usableRange, 5000))))]_vars

\* a near-miss stop committed with a usable range under 50 miles while another
\* unused station lay beyond the usable range and within 50 miles
NearMissWindowWitness ==
    /\ pc = "done"
    /\ exitPath = "nearMissStop"
    /\ usableRange < 50
    /\ \E i \in 1..Len(stationsAlongRoute) :
          /\ stationsAlongRoute[i].id \notin usedStations
          /\ stationsAlongRoute[i].distanceFromStart > currentPosition + usableRange
          /\ stationsAlongRoute[i].distanceFromStart <= currentPosition + 50
\* C19: a near-miss iteration whose window holds no station goes on to the
\* standard selection in the same iteration: where that selection (standard
\* window, then expanded search) has a station, it is taken (committed, or
\* discarded and marked used) and the plan does not end
NearMissFallsThrough ==
    [][(/\ EntersNearMiss
        /\ NearMissStations = {}
        /\ (NextStations # {} \/ ExpandedStations # {}))
       => (pc' = "loop" /\ usedStations' # usedStations)]_vars
\* the step commits a stop
StopCommitted == Len(stops') = Len(stops) + 1

\* C20: a stop committed by the border-priority or the standard selection
\* (standard window or expanded search) has the fill target tankSize, and
\* right after the commit currentFuel = tankSize, currentPosition is the
\* station's distanceFromStart and its id is in usedStations; a stop with a
\* lower fill target is a near-miss stop
FullTankStops ==
    [][StopCommitted =>
          LET stop == stops'[Len(stops')]
              last == via'[Len(via')]
          IN  /\ last.branch \in {"border", "standard", "expanded"} =>
                    /\ stop.fillAmount = tankSize
                    /\ currentFuel' = tankSize
                    /\ currentPosition' = last.station.distanceFromStart
                    /\ last.station.id \in usedStations'
              /\ stop.fillAmount < tankSize => last.branch = "nearMiss"]_vars

\* a finished plan with a full-tank stop of the standard selection followed
\* by a near-miss stop filled below the tank size
FullTankStopsWitness ==
    /\ pc = "done"
    /\ Len(stops) = 2
    /\ via[1].branch \in {"standard", "expanded"}
    /\ stops[1].fillAmount = tankSize
    /\ via[2].branch = "nearMiss"
    /\ stops[2].fillAmount < tankSize
\* the positions (from 1) at which a station in a high-price state follows a
\* station that is not
EntryPositions ==
    {i \in 2..Len(stationsAlongRoute) :
        /\ High(stationsAlongRoute[i].state)
        /\ ~High(stationsAlongRoute[i - 1].state)}

\* C21: the crossings are, in route order and once each, the positions where
\* a high-price station follows a station that is not high-price; a list of
\* fewer than two stations has none
OneCrossingPerEntry ==
    pc = "crossed" =>
        /\ {stateBorderCrossings[k].firstStationInState :
               k \in 1..Len(stateBorderCrossings)} = EntryPositions
        /\ Len(stateBorderCrossings) = Cardinality(EntryPositions)
        /\ \A k \in 1..(Len(stateBorderCrossings) - 1) :
              stateBorderCrossings[k].firstStationInState
                  < stateBorderCrossings[k + 1].firstStationInState
        /\ \A k \in 1..Len(stateBorderCrossings) :
              /\ stateBorderCrossings[k].enteringState
                     = stationsAlongRoute[stateBorderCrossings[k].firstStationInState].state
              /\ stateBorderCrossings[k].borderDistance
                     = stationsAlongRoute[stateBorderCrossings[k].firstStationInState].distanceFromStart
        /\ Len(stationsAlongRoute) < 2 => stateBorderCrossings = <<>>

\* NV, CA, WA, ... : entering CA is one crossing, CA followed by WA is none
OneCrossingPerEntryWitness ==
    /\ pc = "crossed"
    /\ Len(stationsAlongRoute) >= 3
    /\ stationsAlongRoute[1].state = "NV"
    /\ stationsAlongRoute[2].state = "CA"
    /\ stationsAlongRoute[3].state = "WA"
    /\ \A k \in 1..Len(stateBorderCrossings) :
          stateBorderCrossings[k].firstStationInState # 3
    /\ Len(stateBorderCrossings) >= 1
\* C22: the last station before a border stands strictly before the crossing
\* along the route
LastStationStrictlyBefore ==
    \A k \in 1..Len(stateBorderCrossings) :
        stateBorderCrossings[k].lastStationBeforeBorder # 0 =>
            stationsAlongRoute[stateBorderCrossings[k].lastStationBeforeBorder].distanceFromStart
                < stateBorderCrossings[k].borderDistance
\* the unused stations inside the search window
InSearchWindow ==
    {i \in 1..Len(stationsAlongRoute) :
        /\ stationsAlongRoute[i].id \notin usedStations
        /\ 100 * stationsAlongRoute[i].distanceFromStart >= searchWindow[1]
        /\ 100 * stationsAlongRoute[i].distanceFromStart <= searchWindow[2]}

\* price tier of a price in cents: 1 excellent, 2 good, 3 fair, 4 high
TierOf(price) ==
    IF price <= 295 THEN 1 ELSE IF price <= 330 THEN 2 ELSE IF price <= 360 THEN 3 ELSE 4

\* C23: the search returns null exactly when no unused station is inside the
\* window; otherwise it returns an unused station inside the window, and no
\* station inside the window is of a cheaper tier than the one returned
CheapestTierReturned ==
    pc = "searched" =>
        /\ bestStation = <<>> <=> InSearchWindow = {}
        /\ bestStation # <<>> =>
              /\ \E i \in InSearchWindow : stationsAlongRoute[i] = bestStation[1]
              /\ \A i \in InSearchWindow :
                    TierOf(bestStation[1].price) <= TierOf(stationsAlongRoute[i].price)

\* a search with stations of a dearer and of a cheaper tier inside the window,
\* and one outside it
CheapestTierReturnedWitness ==
    /\ pc = "searched"
    /\ bestStation # <<>>
    /\ \E i, j \in InSearchWindow :
          TierOf(stationsAlongRoute[i].price) < TierOf(stationsAlongRoute[j].price)
    /\ \E i \in 1..Len(stationsAlongRoute) : i \notin InSearchWindow

\* what an engine returns is among the results the planner's model allows
SearchWithinModel ==
    pc = "searched" =>
        LET allowed == findBestStationInRange(searchWindow[1], searchWindow[2],
                                              stationsAlongRoute, usedStations)
        IN  IF bestStation = <<>> THEN allowed = {} ELSE bestStation[1] \in allowed
\* C24: the station returned is never 5 cents or more per gallon dearer than
\* another candidate of its tier
NeverDearerThanCandidate ==
    (pc = "searched" /\ bestStation # <<>>) =>
        \A i \in InSearchWindow :
            TierOf(stationsAlongRoute[i].price) = TierOf(bestStation[1].price)
            => bestStation[1].price - stationsAlongRoute[i].price < 5
\* the iteration that starts in this state makes the standard selection
EntersStandardSelection ==
    /\ pc = "loop"
    /\ currentPosition < totalDistance
    /\ ~BorderStopDue
    /\ CannotReach

\* C26: a station returned by the standard search is reached with at least
\* minArrivalGallons, so no station is discarded: usedStations grows only with
\* a committed stop and holds exactly the ids of the stations of the stops
DiscardNeverTaken ==
    [][/\ EntersStandardSelection =>
             \A nextStation \in NextStations :
                 FuelAtStation(nextStation) >= minArrivalGallons * mpg
       /\ usedStations' # usedStations => StopCommitted
       /\ usedStations' = {via'[k].station.id : k \in 1..Len(via')}]_vars

\* a plan with a standard stop reached with less than 40 gallons left
DiscardNeverTakenWitness ==
    /\ pc = "done"
    /\ \E k \in 1..Len(via) :
          /\ via[k].branch = "standard"
          /\ via[k].fuelArriving < 40 * mpg
    /\ usedStations = {via[k].station.id : k \in 1..Len(via)}
\* C25: for the vehicle's tank there is a planner iteration, at some fuel
\* level, fuel economy and distance to the station, in which the station
\* returned by the narrow-window search would be reached with less than
\* minArrivalGallons and findClosestReachableStation is called
ClosestFallbackInvoked ==
    \E fuel \in 0..tankSize, economy \in 1..MaxEconomy, d \in 0..(tankSize * MaxEconomy) :
        /\ NarrowWindowReturns(fuel, economy, d)
        /\ EmergencyAt(fuel, economy, d)
\* C27: every crossing has a last station before the border, the station just
\* before the triggering station in the list; a first corridor station inside
\* a high-price state gives no crossing for that entry, and no border stop is
\* committed for it
LastStationIsPredecessor ==
    /\ \A k \in 1..Len(stateBorderCrossings) :
          /\ stateBorderCrossings[k].lastStationBeforeBorder # 0
          /\ stateBorderCrossings[k].lastStationBeforeBorder
                 = stateBorderCrossings[k].firstStationInState - 1
    /\ (Len(stationsAlongRoute) >= 1 /\ High(stationsAlongRoute[1].state)) =>
          /\ \A k \in 1..Len(stateBorderCrossings) :
                stateBorderCrossings[k].firstStationInState # 1
          /\ \A n \in 1..Len(via) :
                via[n].branch = "border" =>
                    \E k \in 1..Len(stateBorderCrossings) :
                        /\ stateBorderCrossings[k].firstStationInState >= 3
                        /\ via[n].station
                               = stationsAlongRoute[stateBorderCrossings[k].lastStationBeforeBorder]

\* a finished plan on a corridor that starts inside a high-price state, leaves
\* it and enters it again, with a border stop for the second entry
LastStationIsPredecessorWitness ==
    /\ pc = "done"
    /\ Len(stationsAlongRoute) = 3
    /\ High(stationsAlongRoute[1].state)
    /\ Len(stateBorderCrossings) = 1
    /\ \E n \in 1..Len(via) : via[n].branch = "border"
\* the planner's state at the while test
LoopState ==
    pc = "loop" =>
        /\ 0 <= currentFuel
        /\ currentFuel <= tankSize
        /\ currentPosition = (IF via = <<>> THEN 0
                              ELSE via[Len(via)].station.distanceFromStart)
        /\ via # <<>> => currentFuel = tankSize

\* C28: at the start of every iteration 0 <= currentFuel <= tankSize,
\* currentPosition is 0 or the distanceFromStart of the stop committed last,
\* currentFuel = tankSize once a stop has been committed, and currentPosition
\* never decreases
PlannerStateInvariant ==
    /\ []LoopState
    /\ [][currentPosition' >= currentPosition]_vars

\* the start of the third iteration, after two stops
PlannerStateInvariantWitness ==
    /\ pc = "loop"
    /\ iterations = 2
    /\ Len(via) = 2
    /\ currentPosition > via[1].station.distanceFromStart
    /\ currentGallons < tankSize
\* C29: every committed stop adds at least one gallon
EveryStopAddsFuel ==
    \A k \in 1..Len(stops) : stops[k].gallonsToAdd >= 1
\* crossing k's last station before the border is unused and ahead, and
\* stands before the border
BorderStationPending(k) ==
    LET last == stationsAlongRoute[stateBorderCrossings[k].lastStationBeforeBorder]
    IN  /\ stateBorderCrossings[k].lastStationBeforeBorder # 0
        /\ last.id \notin usedStations
        /\ last.distanceFromStart > currentPosition
        /\ last.distanceFromStart < stateBorderCrossings[k].borderDistance

\* a full-tank stop at or before crossing k's last station is in the plan
FilledBeforeBorder(k) ==
    LET last == stationsAlongRoute[stateBorderCrossings[k].lastStationBeforeBorder]
    IN  \E n \in 1..Len(stops) :
            /\ stops[n].fillAmount = tankSize
            /\ via[n].station.distanceFromStart <= last.distanceFromStart

\* C30: while a crossing's last station is unused and ahead, the expanded
\* search commits no stop at or beyond the crossing's borderDistance, unless a
\* full-tank stop at or before that last station is already in the plan
NoUnfilledBorderCrossing ==
    [][(StopCommitted /\ via'[Len(via')].branch = "expanded") =>
          \A k \in 1..Len(stateBorderCrossings) :
              (BorderStationPending(k) /\ ~FilledBeforeBorder(k)) =>
                  via'[Len(via')].station.distanceFromStart
                      < stateBorderCrossings[k].borderDistance]_vars
====
